---- MODULE Spec2Model ----
(***************************************************************************)
(* A model of ACpathfinder.py: the ACPathfinder object built over a 3D     *)
(* building matrix, its breadth-first router (bfs_pathfinding), the cost   *)
(* model (_calculate_energy_cost, _is_turn), the simplifier                *)
(* (optimize_energy_usage, _optimize_path_turns, _can_go_direct), the      *)
(* densifier (_expand_path) and the part of the main block that chains     *)
(* them.                                                                   *)
(*                                                                         *)
(* Conventions.  A position is the tuple <<f, r, c>> with the 0-based      *)
(* indices of the source.  A Python list is a TLA+ sequence; At(s, i) is   *)
(* the Python s[i].  The building matrix is a function over 0-based        *)
(* indices, building[f][r][c].  Energy is counted in tenths of a unit, so  *)
(* that 0.1, 0.5, 1.0, 2.0 and 3.0 are the integers 1, 5, 10, 20 and 30.   *)
(* A dict is a function from key strings; the dicts that bfs_pathfinding   *)
(* and optimize_energy_usage create live in the object store `dicts`, and  *)
(* the lists hold references (indices) into it, so that two lists can      *)
(* share one dict as they do in the source.                                *)
(***************************************************************************)
EXTENDS Integers, Sequences, FiniteSets, TLC

VARIABLES
    building,                 \* self.building
    floors, rows, cols,       \* self.floors, self.rows, self.cols
    source,                   \* self.source (None or a position)
    targets,                  \* self.targets
    pc,                       \* position in bfs_pathfinding / the main block
    target_idx,               \* loop variable of `for target_idx, target in enumerate(...)`
    queue,                    \* deque of <<position, path>>
    visited,                  \* set of positions
    path_found,               \* path_found flag of the current search
    enqueued,                 \* history: every position appended to queue in this search, in order
    dicts,                    \* object store: the dicts created so far
    bfs_paths,                \* paths_to_all_targets / bfs_paths: references into dicts
    bfs_snapshot,             \* history: the dicts as bfs_pathfinding returned them
    optimized_paths,          \* optimized_paths / optimized_paths_info: references into dicts
    opt_i,                    \* loop index of optimize_energy_usage
    vis_i,                    \* loop index of the visual_path loop of the main block
    arg_path,                 \* argument of a direct call of a path function
    ret_cost,                 \* value returned by _calculate_energy_cost(arg_path)
    ret_path,                 \* value returned by _expand_path(arg_path)
    ret_path2                 \* value returned by _expand_path(ret_path)

vars == <<building, floors, rows, cols, source, targets, pc, target_idx, queue,
          visited, path_found, enqueued, dicts, bfs_paths, bfs_snapshot,
          optimized_paths, opt_i, vis_i, arg_path, ret_cost, ret_path, ret_path2>>

gridVars == <<building, floors, rows, cols, source, targets>>
bfsVars == <<target_idx, queue, visited, path_found, enqueued>>
callVars == <<arg_path, ret_cost, ret_path, ret_path2>>

(***************************************************************************)
(* Bounds of the model.                                                    *)
(***************************************************************************)
MaxFloors == 3
MaxRows == 3
MaxCols == 3
MaxCells == 6      \* cells of a building with more than one floor
MaxRooms == 2
MaxWalls == 3
MaxStairs == 3
MaxLen == 3        \* length of a path handed directly to a path function
MaxCoord == 3      \* largest row / column index in such a path

(***************************************************************************)
(* Python values.                                                          *)
(***************************************************************************)
None == <<>>

At(s, i) == s[i + 1]

Last(s) == s[Len(s)]

\* truthiness by content: the all-zero position counts as falsy, as the number 0 does
PyNotZero(x) == x = None \/ Len(x) = 0 \/ x = <<0, 0, 0>>

\* `not x` for x an Optional[tuple] or a list: None and the empty
\* tuple/list are falsy, every other tuple is truthy whatever it holds.
PyNot(x) == x = None \/ Len(x) = 0

\* dict[k] = v
SetKey(d, k, v) == [x \in (DOMAIN d) \cup {k} |-> IF x = k THEN v ELSE d[x]]

Range0(n) == 0 .. (n - 1)

(***************************************************************************)
(* Grid model: __init__ and the position queries.                          *)
(***************************************************************************)
\* The order in which the three nested loops `for f / for r / for c` of
\* _find_position and _find_all_positions visit the cells of an F x R x C grid.
ScanOrder(F, R, C) ==
    [i \in 1 .. (F * R * C) |->
        <<(i - 1) \div (R * C), ((i - 1) \div C) % R, (i - 1) % C>>]

Cell(b, p) == b[p[1]][p[2]][p[3]]

\* _find_all_positions(symbol) on the matrix b of dimensions F x R x C
FindAllPositions(b, F, R, C, symbol) ==
    LET Matches(p) == Cell(b, p) = symbol
    IN  SelectSeq(ScanOrder(F, R, C), Matches)

\* _find_position(symbol): the first match of the same scan, or None
FindPosition(b, F, R, C, symbol) ==
    LET all == FindAllPositions(b, F, R, C, symbol)
    IN  IF all = <<>> THEN None ELSE Head(all)

\* _is_valid_position(f, r, c)
IsValidPosition(f, r, c) ==
    /\ 0 <= f /\ f < floors
    /\ 0 <= r /\ r < rows
    /\ 0 <= c /\ c < cols
    /\ building[f][r][c] # "W"

\* the direction list with the column moves ahead of the row moves
directionsColumnsFirst == << <<0, -1>>, <<0, 1>>, <<-1, 0>>, <<1, 0>> >>

\* self.directions
directions == << <<-1, 0>>, <<1, 0>>, <<0, -1>>, <<0, 1>> >>

(***************************************************************************)
(* Cost model.                                                             *)
(***************************************************************************)
\* self.energy_costs, in tenths of a unit
energy_costs ==
    [horizontal |-> 10, vertical_up |-> 30, vertical_down |-> 20,
     turn |-> 5, base_pressure |-> 1]

\* _is_turn comparing headings only: the signs of the components, not their size
IsTurnByHeading(pos1, pos2, pos3) ==
    LET Sgn(x) == IF x > 0 THEN 1 ELSE IF x < 0 THEN -1 ELSE 0
        dir1 == <<Sgn(pos2[1] - pos1[1]), Sgn(pos2[2] - pos1[2]), Sgn(pos2[3] - pos1[3])>>
        dir2 == <<Sgn(pos3[1] - pos2[1]), Sgn(pos3[2] - pos2[2]), Sgn(pos3[3] - pos2[3])>>
    IN  dir1 # dir2

\* _is_turn(pos1, pos2, pos3)
IsTurn(pos1, pos2, pos3) ==
    LET dir1 == <<pos2[1] - pos1[1], pos2[2] - pos1[2], pos2[3] - pos1[3]>>
        dir2 == <<pos3[1] - pos2[1], pos3[2] - pos2[2], pos3[3] - pos2[3]>>
    IN  dir1 # dir2

\* What one iteration i of the loop of _calculate_energy_cost adds to total_energy.
EnergyOfStep(path, i) ==
    LET prev_pos == At(path, i - 1)
        curr_pos == At(path, i)
        prev_f == prev_pos[1]
        curr_f == curr_pos[1]
        movement ==
            IF curr_f # prev_f
            THEN IF curr_f > prev_f THEN energy_costs.vertical_up
                                    ELSE energy_costs.vertical_down
            ELSE energy_costs.horizontal
        turning ==
            IF i >= 2 /\ IsTurn(At(path, i - 2), prev_pos, curr_pos)
            THEN energy_costs.turn ELSE 0
    IN  energy_costs.base_pressure + movement + turning

RECURSIVE EnergyLoop(_, _, _)
\* the loop `for i in range(1, len(path))` from iteration i on, total_energy so far
EnergyLoop(path, i, total_energy) ==
    IF i >= Len(path) THEN total_energy
    ELSE EnergyLoop(path, i + 1, total_energy + EnergyOfStep(path, i))

\* _calculate_energy_cost charging every position of the path instead of every move
CalculateEnergyCostPerPosition(path) ==
    IF Len(path) < 2 THEN 0
    ELSE EnergyLoop(path, 1, energy_costs.base_pressure + energy_costs.horizontal)

\* _calculate_energy_cost(path)
CalculateEnergyCost(path) ==
    IF Len(path) < 2 THEN 0 ELSE EnergyLoop(path, 1, 0)

(***************************************************************************)
(* Densifier.                                                              *)
(***************************************************************************)
\* list(range(a, b, step)) for step = 1 or step = -1
RECURSIVE PyRange(_, _, _)
PyRange(a, b, step) ==
    IF (step > 0 /\ a >= b) \/ (step < 0 /\ a <= b) THEN <<>>
    ELSE <<a>> \o PyRange(a + step, b, step)

\* the loop body with both ranges starting at the start cell itself
ExpandPairFromStart(start_pos, end_pos) ==
    LET f1 == start_pos[1]  r1 == start_pos[2]  c1 == start_pos[3]
        f2 == end_pos[1]    r2 == end_pos[2]    c2 == end_pos[3]
    IN  IF f1 # f2 THEN <<end_pos>>
        ELSE IF c1 = c2
             THEN LET step == IF r2 > r1 THEN 1 ELSE -1
                      rs == PyRange(r1, r2, step)
                  IN  [k \in 1 .. Len(rs) |-> <<f1, rs[k], c1>>] \o <<end_pos>>
        ELSE IF r1 = r2
             THEN LET step == IF c2 > c1 THEN 1 ELSE -1
                      cs == PyRange(c1, c2, step)
                  IN  [k \in 1 .. Len(cs) |-> <<f1, r1, cs[k]>>] \o <<end_pos>>
        ELSE <<end_pos>>

\* the loop body with both ranges always counting upwards
ExpandPairAscendingOnly(start_pos, end_pos) ==
    LET f1 == start_pos[1]  r1 == start_pos[2]  c1 == start_pos[3]
        f2 == end_pos[1]    r2 == end_pos[2]    c2 == end_pos[3]
    IN  IF f1 # f2 THEN <<end_pos>>
        ELSE IF c1 = c2
             THEN LET rs == PyRange(r1 + 1, r2, 1)
                  IN  [k \in 1 .. Len(rs) |-> <<f1, rs[k], c1>>] \o <<end_pos>>
        ELSE IF r1 = r2
             THEN LET cs == PyRange(c1 + 1, c2, 1)
                  IN  [k \in 1 .. Len(cs) |-> <<f1, r1, cs[k]>>] \o <<end_pos>>
        ELSE <<end_pos>>

\* The cells one iteration of the loop of _expand_path appends for the pair
\* start_pos, end_pos.
ExpandPair(start_pos, end_pos) ==
    LET f1 == start_pos[1]  r1 == start_pos[2]  c1 == start_pos[3]
        f2 == end_pos[1]    r2 == end_pos[2]    c2 == end_pos[3]
    IN  IF f1 # f2 THEN <<end_pos>>
        ELSE IF c1 = c2
             THEN LET step == IF r2 > r1 THEN 1 ELSE -1
                      rs == PyRange(r1 + step, r2, step)
                  IN  [k \in 1 .. Len(rs) |-> <<f1, rs[k], c1>>] \o <<end_pos>>
        ELSE IF r1 = r2
             THEN LET step == IF c2 > c1 THEN 1 ELSE -1
                      cs == PyRange(c1 + step, c2, step)
                  IN  [k \in 1 .. Len(cs) |-> <<f1, r1, cs[k]>>] \o <<end_pos>>
        ELSE <<end_pos>>

RECURSIVE ExpandLoop(_, _, _)
\* the loop `for i in range(len(path) - 1)` from iteration i on
ExpandLoop(path, i, dense_path) ==
    IF i >= Len(path) - 1 THEN dense_path
    ELSE ExpandLoop(path, i + 1,
                    dense_path \o ExpandPair(At(path, i), At(path, i + 1)))

\* _expand_path(path)
ExpandPath(path) ==
    IF Len(path) < 2 THEN path ELSE ExpandLoop(path, 0, <<At(path, 0)>>)

(***************************************************************************)
(* Simplifier.                                                             *)
(***************************************************************************)
\* _can_go_direct without the `if (r1 != r2 and c1 != c2): return False`
CanGoDirectDiagonal(pos1, pos2) ==
    LET f1 == pos1[1]  r1 == pos1[2]  c1 == pos1[3]
        f2 == pos2[1]  r2 == pos2[2]  c2 == pos2[3]
        Min(a, b) == IF a < b THEN a ELSE b
        Max(a, b) == IF a > b THEN a ELSE b
    IN  IF f1 # f2 THEN FALSE
        ELSE IF r1 = r2
             THEN \A c \in (Min(c1, c2) + 1) .. (Max(c1, c2) - 1) :
                      IsValidPosition(f1, r1, c)
             ELSE \A r \in (Min(r1, r2) + 1) .. (Max(r1, r2) - 1) :
                      IsValidPosition(f1, r, c1)

\* _can_go_direct without the `if f1 != f2: return False` of its head
CanGoDirectAnyFloor(pos1, pos2) ==
    LET f1 == pos1[1]  r1 == pos1[2]  c1 == pos1[3]
        f2 == pos2[1]  r2 == pos2[2]  c2 == pos2[3]
        Min(a, b) == IF a < b THEN a ELSE b
        Max(a, b) == IF a > b THEN a ELSE b
    IN  IF r1 # r2 /\ c1 # c2 THEN FALSE
        ELSE IF r1 = r2
             THEN \A c \in (Min(c1, c2) + 1) .. (Max(c1, c2) - 1) :
                      IsValidPosition(f1, r1, c)
             ELSE \A r \in (Min(r1, r2) + 1) .. (Max(r1, r2) - 1) :
                      IsValidPosition(f1, r, c1)

\* _can_go_direct(pos1, pos2)
CanGoDirect(pos1, pos2) ==
    LET f1 == pos1[1]  r1 == pos1[2]  c1 == pos1[3]
        f2 == pos2[1]  r2 == pos2[2]  c2 == pos2[3]
        Min(a, b) == IF a < b THEN a ELSE b
        Max(a, b) == IF a > b THEN a ELSE b
    IN  IF f1 # f2 THEN FALSE
        ELSE IF r1 # r2 /\ c1 # c2 THEN FALSE
        ELSE IF r1 = r2
             THEN \A c \in (Min(c1, c2) + 1) .. (Max(c1, c2) - 1) :
                      IsValidPosition(f1, r1, c)
             ELSE \A r \in (Min(r1, r2) + 1) .. (Max(r1, r2) - 1) :
                      IsValidPosition(f1, r, c1)

RECURSIVE TurnsLoopDirectToCurrent(_, _, _)
\* the loop asking _can_go_direct about curr_pos instead of next_pos
TurnsLoopDirectToCurrent(path, i, optimized) ==
    IF i >= Len(path) - 1 THEN optimized
    ELSE LET prev_pos == Last(optimized)
             curr_pos == At(path, i)
         IN  IF CanGoDirect(prev_pos, curr_pos)
             THEN TurnsLoopDirectToCurrent(path, i + 1, optimized)
             ELSE TurnsLoopDirectToCurrent(path, i + 1, Append(optimized, curr_pos))

RECURSIVE TurnsLoop(_, _, _)
\* the loop `for i in range(1, len(path) - 1)` of _optimize_path_turns
TurnsLoop(path, i, optimized) ==
    IF i >= Len(path) - 1 THEN optimized
    ELSE LET prev_pos == Last(optimized)
             curr_pos == At(path, i)
             next_pos == At(path, i + 1)
         IN  IF CanGoDirect(prev_pos, next_pos)
             THEN TurnsLoop(path, i + 1, optimized)
             ELSE TurnsLoop(path, i + 1, Append(optimized, curr_pos))

\* _optimize_path_turns(path)
OptimizePathTurns(path) ==
    IF Len(path) <= 2 THEN path
    ELSE Append(TurnsLoop(path, 1, <<At(path, 0)>>), Last(path))

\* the loop body extending the shared path list in place instead of replacing it
OptimizeInfoExtend(path_info) ==
    LET original_path == path_info["path"]
        original_energy == path_info["energy_cost"]
        optimized_path == OptimizePathTurns(original_path)
        optimized_energy == CalculateEnergyCost(optimized_path)
    IN  IF optimized_energy < original_energy
        THEN [replaced |-> TRUE,
              info |-> SetKey(SetKey(SetKey(SetKey(path_info,
                          "path", original_path \o optimized_path),
                          "energy_cost", optimized_energy),
                          "steps", Len(optimized_path)),
                          "energy_saved", original_energy - optimized_energy)]
        ELSE [replaced |-> FALSE,
              info |-> SetKey(path_info, "energy_saved", 0)]

\* the loop body without the line that updates 'steps' on the copy
OptimizeInfoStaleSteps(path_info) ==
    LET original_path == path_info["path"]
        original_energy == path_info["energy_cost"]
        optimized_path == OptimizePathTurns(original_path)
        optimized_energy == CalculateEnergyCost(optimized_path)
    IN  IF optimized_energy < original_energy
        THEN [replaced |-> TRUE,
              info |-> SetKey(SetKey(SetKey(path_info,
                          "path", optimized_path),
                          "energy_cost", optimized_energy),
                          "energy_saved", original_energy - optimized_energy)]
        ELSE [replaced |-> FALSE,
              info |-> SetKey(path_info, "energy_saved", 0)]

\* the loop body with the saving computed as optimized minus original
OptimizeInfoSavedSign(path_info) ==
    LET original_path == path_info["path"]
        original_energy == path_info["energy_cost"]
        optimized_path == OptimizePathTurns(original_path)
        optimized_energy == CalculateEnergyCost(optimized_path)
    IN  IF optimized_energy < original_energy
        THEN [replaced |-> TRUE,
              info |-> SetKey(SetKey(SetKey(SetKey(path_info,
                          "path", optimized_path),
                          "energy_cost", optimized_energy),
                          "steps", Len(optimized_path)),
                          "energy_saved", optimized_energy - original_energy)]
        ELSE [replaced |-> FALSE,
              info |-> SetKey(path_info, "energy_saved", 0)]

\* One pass of the body of the loop of optimize_energy_usage over path_info:
\* whether the dict is replaced by a copy, and the dict that is appended.
OptimizeInfo(path_info) ==
    LET original_path == path_info["path"]
        original_energy == path_info["energy_cost"]
        optimized_path == OptimizePathTurns(original_path)
        optimized_energy == CalculateEnergyCost(optimized_path)
    IN  IF optimized_energy < original_energy
        THEN [replaced |-> TRUE,
              info |-> SetKey(SetKey(SetKey(SetKey(path_info,
                          "path", optimized_path),
                          "energy_cost", optimized_energy),
                          "steps", Len(optimized_path)),
                          "energy_saved", original_energy - optimized_energy)]
        ELSE [replaced |-> FALSE,
              info |-> SetKey(path_info, "energy_saved", 0)]

(***************************************************************************)
(* The buildings the model starts from.                                    *)
(***************************************************************************)
Shapes ==
    {sh \in (1 .. MaxFloors) \X (1 .. MaxRows) \X (1 .. MaxCols) :
        sh[1] = 1 \/ sh[1] * sh[2] * sh[3] <= MaxCells}

CellsOf(sh) == Range0(sh[1]) \X Range0(sh[2]) \X Range0(sh[3])

SubsetsUpTo(S, n) == {X \in SUBSET S : Cardinality(X) <= n}

\* The matrix with 'S' at src (if any), 'R' on R, 'W' on W, 'T' on T, '.' elsewhere.
MkBuilding(sh, src, R, W, T) ==
    [f \in Range0(sh[1]) |-> [r \in Range0(sh[2]) |-> [c \in Range0(sh[3]) |->
        LET p == <<f, r, c>>
        IN  IF p = src THEN "S"
            ELSE IF p \in R THEN "R"
            ELSE IF p \in W THEN "W"
            ELSE IF p \in T THEN "T"
            ELSE "."]]]

\* The one-floor 3 x 3 layout   S . R / W W W / . . .
WalledScenario ==
    MkBuilding(<<1, 3, 3>>, <<0, 0, 0>>, {<<0, 0, 2>>},
               {<<0, 1, 0>>, <<0, 1, 1>>, <<0, 1, 2>>}, {})

\* The two-floor 3 x 3 layout with a stair at (1, 1) of both floors, the
\* source at (0, 0, 0) and a room at (1, 2, 2)
StairScenario ==
    MkBuilding(<<2, 3, 3>>, <<0, 0, 0>>, {<<1, 2, 2>>}, {},
               {<<0, 1, 1>>, <<1, 1, 1>>})

\* __init__(building_matrix): the fields of the object
Constructed(b, F, R, C) ==
    /\ building = b
    /\ floors = F
    /\ rows = R
    /\ cols = C
    /\ source = FindPosition(b, F, R, C, "S")
    /\ targets = FindAllPositions(b, F, R, C, "R")

InitRest ==
    /\ target_idx = 0
    /\ queue = <<>>
    /\ visited = {}
    /\ path_found = FALSE
    /\ enqueued = <<>>
    /\ dicts = <<>>
    /\ bfs_paths = <<>>
    /\ bfs_snapshot = <<>>
    /\ optimized_paths = <<>>
    /\ opt_i = 0
    /\ vis_i = 0

\* A building read from a layout file, the ACPathfinder built over it, and
\* the main block about to call bfs_pathfinding.
Init ==
    /\ \/ \E sh \in Shapes :
          \E src \in {None} \cup CellsOf(sh) :
          \E R \in SubsetsUpTo(CellsOf(sh) \ {src}, MaxRooms) :
          \E W \in SubsetsUpTo((CellsOf(sh) \ {src}) \ R, MaxWalls) :
          \E T \in SubsetsUpTo(((CellsOf(sh) \ {src}) \ R) \ W,
                               IF sh[1] = 1 THEN 0 ELSE MaxStairs) :
              Constructed(MkBuilding(sh, src, R, W, T), sh[1], sh[2], sh[3])
       \/ Constructed(StairScenario, 2, 3, 3)
    /\ pc = "bfs_pathfinding"
    /\ InitRest
    /\ arg_path = <<>>
    /\ ret_cost = 0
    /\ ret_path = <<>>
    /\ ret_path2 = <<>>

(***************************************************************************)
(* bfs_pathfinding.                                                        *)
(***************************************************************************)
\* `if not self.source or not self.targets: return []`
BfsEarlyReturn ==
    /\ pc = "bfs_pathfinding"
    /\ PyNot(source) \/ PyNot(targets)
    /\ pc' = "returned"
    /\ bfs_paths' = <<>>
    /\ bfs_snapshot' = <<>>
    /\ UNCHANGED <<gridVars, bfsVars, dicts, optimized_paths, opt_i, vis_i, callVars>>

\* otherwise `paths_to_all_targets = []` and the for loop is entered
BfsBegin ==
    /\ pc = "bfs_pathfinding"
    /\ ~(PyNot(source) \/ PyNot(targets))
    /\ pc' = "for_target"
    /\ bfs_paths' = <<>>
    /\ target_idx' = 0
    /\ UNCHANGED <<gridVars, queue, visited, path_found, enqueued, dicts,
                   bfs_snapshot, optimized_paths, opt_i, vis_i, callVars>>

\* the head of the for loop with the visited set created once, before the loop
BfsStartSearchSharedVisited ==
    /\ pc = "for_target"
    /\ target_idx < Len(targets)
    /\ queue' = << <<source, <<source>> >> >>
    /\ visited' = visited \cup {source}
    /\ path_found' = FALSE
    /\ enqueued' = <<source>>
    /\ pc' = "while"
    /\ UNCHANGED <<gridVars, target_idx, dicts, bfs_paths, bfs_snapshot,
                   optimized_paths, opt_i, vis_i, callVars>>

\* head of `for target_idx, target in enumerate(self.targets)`: the queue, the
\* visited set and the flag of the next search
BfsStartSearch ==
    /\ pc = "for_target"
    /\ target_idx < Len(targets)
    /\ queue' = << <<source, <<source>> >> >>
    /\ visited' = {source}
    /\ path_found' = FALSE
    /\ enqueued' = <<source>>
    /\ pc' = "while"
    /\ UNCHANGED <<gridVars, target_idx, dicts, bfs_paths, bfs_snapshot,
                   optimized_paths, opt_i, vis_i, callVars>>

\* the for loop is over: `return paths_to_all_targets`
BfsReturn ==
    /\ pc = "for_target"
    /\ target_idx >= Len(targets)
    /\ pc' = "returned"
    /\ bfs_snapshot' = [k \in 1 .. Len(bfs_paths) |-> dicts[bfs_paths[k]]]
    /\ UNCHANGED <<gridVars, bfsVars, dicts, bfs_paths, optimized_paths,
                   opt_i, vis_i, callVars>>

\* `current_pos == target` without the `break`: the PathResult is appended and
\* the while loop goes on
BfsFoundNoBreak ==
    /\ pc = "while"
    /\ queue # <<>>
    /\ LET current_pos == Head(queue)[1]
           path == Head(queue)[2]
           target == At(targets, target_idx)
           path_info == [target_index |-> target_idx,
                         target_position |-> target,
                         path |-> path,
                         steps |-> Len(path),
                         energy_cost |-> CalculateEnergyCost(path)]
       IN  /\ current_pos = target
           /\ dicts' = Append(dicts, path_info)
           /\ bfs_paths' = Append(bfs_paths, Len(dicts) + 1)
    /\ queue' = Tail(queue)
    /\ path_found' = TRUE
    /\ pc' = "while"
    /\ UNCHANGED <<gridVars, target_idx, visited, enqueued, bfs_snapshot,
                   optimized_paths, opt_i, vis_i, callVars>>

\* `current_pos == target`: the PathResult is appended and the while loop left
BfsFound ==
    /\ pc = "while"
    /\ queue # <<>>
    /\ LET current_pos == Head(queue)[1]
           path == Head(queue)[2]
           target == At(targets, target_idx)
           path_info == [target_index |-> target_idx,
                         target_position |-> target,
                         path |-> path,
                         steps |-> Len(path),
                         energy_cost |-> CalculateEnergyCost(path)]
       IN  /\ current_pos = target
           /\ dicts' = Append(dicts, path_info)
           /\ bfs_paths' = Append(bfs_paths, Len(dicts) + 1)
    /\ queue' = Tail(queue)
    /\ path_found' = TRUE
    /\ pc' = "after_while"
    /\ UNCHANGED <<gridVars, target_idx, visited, enqueued, bfs_snapshot,
                   optimized_paths, opt_i, vis_i, callVars>>

\* the neighbour loops without the check that the destination floor has a stair
NeighboursAnyFloor(current_pos) ==
    LET f == current_pos[1]
        r == current_pos[2]
        c == current_pos[3]
        horizontal ==
            [k \in 1 .. Len(directions) |->
                <<f, r + directions[k][1], c + directions[k][2]>>]
        ValidHere(p) == IsValidPosition(p[1], p[2], p[3])
        Other(new_f) == new_f # f
        vertical ==
            IF building[f][r][c] = "T"
            THEN [k \in 1 .. Len(SelectSeq([j \in 1 .. floors |-> j - 1], Other)) |->
                    <<SelectSeq([j \in 1 .. floors |-> j - 1], Other)[k], r, c>>]
            ELSE <<>>
    IN  SelectSeq(horizontal, ValidHere) \o vertical

\* The positions the two neighbour loops of one iteration try, in the order
\* they try them: the four directions on the same floor, then, on a stair,
\* the other floors in ascending order that have a stair at the same (r, c).
Neighbours(current_pos) ==
    LET f == current_pos[1]
        r == current_pos[2]
        c == current_pos[3]
        horizontal ==
            [k \in 1 .. Len(directions) |->
                <<f, r + directions[k][1], c + directions[k][2]>>]
        ValidHere(p) == IsValidPosition(p[1], p[2], p[3])
        StairAt(new_f) == new_f # f /\ building[new_f][r][c] = "T"
        vertical ==
            IF building[f][r][c] = "T"
            THEN [k \in 1 .. Len(SelectSeq([j \in 1 .. floors |-> j - 1], StairAt)) |->
                    <<SelectSeq([j \in 1 .. floors |-> j - 1], StairAt)[k], r, c>>]
            ELSE <<>>
    IN  SelectSeq(horizontal, ValidHere) \o vertical

RECURSIVE EnqueueLoopLeft(_, _, _, _, _)
\* the enqueue loop with queue.appendleft in place of queue.append
EnqueueLoopLeft(cands, k, path, vis, q) ==
    IF k > Len(cands) THEN <<vis, q, <<>> >>
    ELSE LET new_pos == cands[k]
         IN  IF new_pos \notin vis
             THEN LET rest == EnqueueLoopLeft(cands, k + 1, path, vis \cup {new_pos},
                                  << <<new_pos, Append(path, new_pos)>> >> \o q)
                  IN  <<rest[1], rest[2], <<new_pos>> \o rest[3]>>
             ELSE EnqueueLoopLeft(cands, k + 1, path, vis, q)

RECURSIVE EnqueueLoop(_, _, _, _, _)
\* `if new_pos not in visited: visited.add(new_pos); queue.append(...)` for the
\* candidates from index k on; the result is <<visited, queue, appended positions>>
EnqueueLoop(cands, k, path, vis, q) ==
    IF k > Len(cands) THEN <<vis, q, <<>> >>
    ELSE LET new_pos == cands[k]
         IN  IF new_pos \notin vis
             THEN LET rest == EnqueueLoop(cands, k + 1, path, vis \cup {new_pos},
                                          Append(q, <<new_pos, Append(path, new_pos)>>))
                  IN  <<rest[1], rest[2], <<new_pos>> \o rest[3]>>
             ELSE EnqueueLoop(cands, k + 1, path, vis, q)

\* one iteration of the while loop on a position that is not the target
BfsExpand ==
    /\ pc = "while"
    /\ queue # <<>>
    /\ LET current_pos == Head(queue)[1]
           path == Head(queue)[2]
           target == At(targets, target_idx)
           out == EnqueueLoop(Neighbours(current_pos), 1, path, visited, Tail(queue))
       IN  /\ current_pos # target
           /\ visited' = out[1]
           /\ queue' = out[2]
           /\ enqueued' = enqueued \o out[3]
    /\ UNCHANGED <<gridVars, pc, target_idx, path_found, dicts, bfs_paths,
                   bfs_snapshot, optimized_paths, opt_i, vis_i, callVars>>

\* the queue ran empty: the while loop ends without a break
BfsExhausted ==
    /\ pc = "while"
    /\ queue = <<>>
    /\ pc' = "after_while"
    /\ UNCHANGED <<gridVars, bfsVars, dicts, bfs_paths, bfs_snapshot,
                   optimized_paths, opt_i, vis_i, callVars>>

\* a failed search ending the whole for loop instead of moving to the next target
BfsNextTargetAbort ==
    /\ pc = "after_while"
    /\ target_idx' = IF path_found THEN target_idx + 1 ELSE Len(targets)
    /\ pc' = "for_target"
    /\ UNCHANGED <<gridVars, queue, visited, path_found, enqueued, dicts,
                   bfs_paths, bfs_snapshot, optimized_paths, opt_i, vis_i, callVars>>

\* `if not path_found: print(...)`, then the next target
BfsNextTarget ==
    /\ pc = "after_while"
    /\ target_idx' = target_idx + 1
    /\ pc' = "for_target"
    /\ UNCHANGED <<gridVars, queue, visited, path_found, enqueued, dicts,
                   bfs_paths, bfs_snapshot, optimized_paths, opt_i, vis_i, callVars>>

(***************************************************************************)
(* The main block after bfs_pathfinding.                                   *)
(***************************************************************************)
\* `if bfs_paths:` ... optimize_energy_usage(bfs_paths) is called
MainOptimize ==
    /\ pc = "returned"
    /\ ~PyNot(bfs_paths)
    /\ optimized_paths' = <<>>
    /\ opt_i' = 0
    /\ pc' = "optimize"
    /\ UNCHANGED <<gridVars, bfsVars, dicts, bfs_paths, bfs_snapshot, vis_i, callVars>>

\* `else:` nothing to optimize or draw
MainNoPaths ==
    /\ pc = "returned"
    /\ PyNot(bfs_paths)
    /\ pc' = "done"
    /\ UNCHANGED <<gridVars, bfsVars, dicts, bfs_paths, bfs_snapshot,
                   optimized_paths, opt_i, vis_i, callVars>>

\* the iteration with `optimized_info = path_info` in place of path_info.copy()
OptimizeStepInPlace ==
    /\ pc = "optimize"
    /\ opt_i < Len(bfs_paths)
    /\ LET ref == At(bfs_paths, opt_i)
           res == OptimizeInfo(dicts[ref])
       IN  /\ dicts' = [dicts EXCEPT ![ref] = res.info]
           /\ optimized_paths' = Append(optimized_paths, ref)
    /\ opt_i' = opt_i + 1
    /\ UNCHANGED <<gridVars, bfsVars, pc, bfs_paths, bfs_snapshot, vis_i, callVars>>

\* one iteration of `for path_info in path_info_list`
OptimizeStep ==
    /\ pc = "optimize"
    /\ opt_i < Len(bfs_paths)
    /\ LET ref == At(bfs_paths, opt_i)
           res == OptimizeInfo(dicts[ref])
       IN  IF res.replaced
           THEN \* path_info.copy() is a new dict
                /\ dicts' = Append(dicts, res.info)
                /\ optimized_paths' = Append(optimized_paths, Len(dicts) + 1)
           ELSE \* path_info itself gets the key and is appended
                /\ dicts' = [dicts EXCEPT ![ref] = res.info]
                /\ optimized_paths' = Append(optimized_paths, ref)
    /\ opt_i' = opt_i + 1
    /\ UNCHANGED <<gridVars, bfsVars, pc, bfs_paths, bfs_snapshot, vis_i, callVars>>

\* `return optimized_paths`
OptimizeReturn ==
    /\ pc = "optimize"
    /\ opt_i >= Len(bfs_paths)
    /\ vis_i' = 0
    /\ pc' = "visual"
    /\ UNCHANGED <<gridVars, bfsVars, dicts, bfs_paths, bfs_snapshot,
                   optimized_paths, opt_i, callVars>>

\* `info['visual_path'] = pathfinder._expand_path(info['path'])`
AttachVisual ==
    /\ pc = "visual"
    /\ vis_i < Len(optimized_paths)
    /\ LET ref == At(optimized_paths, vis_i)
       IN  dicts' = [dicts EXCEPT
                        ![ref] = SetKey(@, "visual_path", ExpandPath(@["path"]))]
    /\ vis_i' = vis_i + 1
    /\ UNCHANGED <<gridVars, bfsVars, pc, bfs_paths, bfs_snapshot,
                   optimized_paths, opt_i, callVars>>

\* the loop is over and the blueprint is drawn from optimized_paths_info
MainBlueprint ==
    /\ pc = "visual"
    /\ vis_i >= Len(optimized_paths)
    /\ pc' = "done"
    /\ UNCHANGED <<gridVars, bfsVars, dicts, bfs_paths, bfs_snapshot,
                   optimized_paths, opt_i, vis_i, callVars>>

Next ==
    \/ BfsEarlyReturn
    \/ BfsBegin
    \/ BfsStartSearch
    \/ BfsFound
    \/ BfsExpand
    \/ BfsExhausted
    \/ BfsNextTarget
    \/ BfsReturn
    \/ MainOptimize
    \/ MainNoPaths
    \/ OptimizeStep
    \/ OptimizeReturn
    \/ AttachVisual
    \/ MainBlueprint

Spec == Init /\ [][Next]_vars

\* The buildings of Init of at most MaxCells cells, on one floor or several,
\* and the two-floor layout StairScenario.
InitFair ==
    /\ Init
    /\ floors * rows * cols <= MaxCells \/ building = StairScenario

\* The program is one thread that runs to completion: whenever a step of it is
\* possible, a step is taken.
SpecFair == InitFair /\ [][Next]_vars /\ WF_vars(Next)

(***************************************************************************)
(* Direct calls of the path functions on arbitrary paths.                  *)
(***************************************************************************)
Box == Range0(MaxFloors) \X (0 .. MaxCoord) \X (0 .. MaxCoord)

Paths == UNION {[1 .. n -> Box] : n \in 0 .. MaxLen}

InitCalls ==
    /\ Constructed(MkBuilding(<<1, 1, 1>>, None, {}, {}, {}), 1, 1, 1)
    /\ InitRest
    /\ pc = "call"
    /\ arg_path \in Paths
    /\ ret_cost = 0
    /\ ret_path = <<>>
    /\ ret_path2 = <<>>

CallEnergyCost ==
    /\ pc = "call"
    /\ ret_cost' = CalculateEnergyCost(arg_path)
    /\ pc' = "cost_returned"
    /\ UNCHANGED <<gridVars, bfsVars, dicts, bfs_paths, bfs_snapshot,
                   optimized_paths, opt_i, vis_i, arg_path, ret_path, ret_path2>>

CallExpandPath ==
    /\ pc = "cost_returned"
    /\ ret_path' = ExpandPath(arg_path)
    /\ pc' = "expand_returned"
    /\ UNCHANGED <<gridVars, bfsVars, dicts, bfs_paths, bfs_snapshot,
                   optimized_paths, opt_i, vis_i, arg_path, ret_cost, ret_path2>>

CallExpandAgain ==
    /\ pc = "expand_returned"
    /\ ret_path2' = ExpandPath(ret_path)
    /\ pc' = "expand2_returned"
    /\ UNCHANGED <<gridVars, bfsVars, dicts, bfs_paths, bfs_snapshot,
                   optimized_paths, opt_i, vis_i, arg_path, ret_cost, ret_path>>

NextCalls == CallEnergyCost \/ CallExpandPath \/ CallExpandAgain

SpecCalls == InitCalls /\ [][NextCalls]_vars

(***************************************************************************)
(* Vocabulary of the properties.                                           *)
(***************************************************************************)
Abs(x) == IF x < 0 THEN -x ELSE x

InBounds(p) ==
    /\ p[1] \in Range0(floors)
    /\ p[2] \in Range0(rows)
    /\ p[3] \in Range0(cols)

AllCells == Range0(floors) \X Range0(rows) \X Range0(cols)

KindAt(p) == building[p[1]][p[2]][p[3]]

\* a unit step on one floor
UnitStep(a, b) ==
    /\ a[1] = b[1]
    /\ Abs(a[2] - b[2]) + Abs(a[3] - b[3]) = 1

\* a floor change between two stair cells at the same (row, col)
StairHop(a, b) ==
    /\ a[1] # b[1]
    /\ a[2] = b[2]
    /\ a[3] = b[3]
    /\ KindAt(a) = "T"
    /\ KindAt(b) = "T"

\* a move the routing rules allow, between two cells of the building
ValidMove(a, b) ==
    /\ InBounds(a) /\ InBounds(b)
    /\ KindAt(a) # "W" /\ KindAt(b) # "W"
    /\ UnitStep(a, b) \/ StairHop(a, b)

\* the PathResults bfs_pathfinding has emitted so far
Emitted == [k \in 1 .. Len(bfs_paths) |-> dicts[bfs_paths[k]]]

NoRepeat(s) == \A i, j \in 1 .. Len(s) : s[i] = s[j] => i = j

(***************************************************************************)
(* C1: every path bfs_pathfinding emits starts at the source, ends at its  *)
(* target Room, holds no Wall cell, and each consecutive pair is a unit    *)
(* step on one floor or a floor change between two Stair cells at the same *)
(* (row, col).                                                             *)
(***************************************************************************)
C1_PathsAreValid ==
    \A k \in 1 .. Len(bfs_paths) :
        LET d == Emitted[k]
            path == d["path"]
        IN  /\ Len(path) >= 1
            /\ path[1] = source
            /\ Last(path) = d["target_position"]
            /\ d["target_position"] = At(targets, d["target_index"])
            /\ KindAt(Last(path)) = "R"
            /\ \A i \in 1 .. Len(path) : InBounds(path[i]) /\ KindAt(path[i]) # "W"
            /\ \A i \in 1 .. Len(path) - 1 :
                   \/ UnitStep(path[i], path[i + 1])
                   \/ StairHop(path[i], path[i + 1])

\* a path that changes floor and also walks on both floors has been emitted
C1_Witness ==
    \E k \in 1 .. Len(bfs_paths) :
        LET path == Emitted[k]["path"]
        IN  /\ \E i \in 1 .. Len(path) - 1 : path[i][1] # path[i + 1][1]
            /\ \E i \in 1 .. Len(path) - 1 : path[i][1] = path[i + 1][1]
            /\ \E w \in AllCells : KindAt(w) = "W"

(***************************************************************************)
(* C2: on the one-floor 3 x 3 layout S . R / W W W / . . . the router      *)
(* returns exactly one result, with path [(0,0,0),(0,0,1),(0,0,2)] and     *)
(* steps 3.  As claimed its energy cost is 3.3 (33 tenths); the code       *)
(* charges the two moves of the path, 2 x 0.1 + 2 x 1.0 = 2.2 (22 tenths). *)
(***************************************************************************)
ScenarioPath == << <<0, 0, 0>>, <<0, 0, 1>>, <<0, 0, 2>> >>

ScenarioResultWithCost(cost) ==
    /\ Len(bfs_paths) = 1
    /\ Emitted[1]["path"] = ScenarioPath
    /\ Emitted[1]["steps"] = 3
    /\ Emitted[1]["energy_cost"] = cost

\* C2 as claimed: on that layout one result, the three-cell path, steps 3, cost 33 tenths
C2_AsClaimed ==
    (building = WalledScenario /\ pc = "returned") => ScenarioResultWithCost(33)

\* C2 as amended: on that layout one result, the three-cell path, steps 3, cost 22 tenths
C2_Scenario ==
    (building = WalledScenario /\ pc = "returned") => ScenarioResultWithCost(22)

C2_Witness == building = WalledScenario /\ pc = "returned"

(***************************************************************************)
(* C3: _calculate_energy_cost(p) is 0 for len(p) < 2 and otherwise the sum *)
(* over the consecutive pairs of 1 (pressure), plus 30 / 20 / 10 for a     *)
(* floor increase / decrease / no floor change, plus 5 for each i >= 2     *)
(* where the vector of p[i-2]->p[i-1] differs from that of p[i-1]->p[i].   *)
(***************************************************************************)
Vector(p, i) ==
    <<At(p, i)[1] - At(p, i - 1)[1],
      At(p, i)[2] - At(p, i - 1)[2],
      At(p, i)[3] - At(p, i - 1)[3]>>

CostAsStated(p) ==
    LET pairs == 1 .. (Len(p) - 1)
        up == {i \in pairs : At(p, i)[1] > At(p, i - 1)[1]}
        down == {i \in pairs : At(p, i)[1] < At(p, i - 1)[1]}
        level == {i \in pairs : At(p, i)[1] = At(p, i - 1)[1]}
        turns == {i \in pairs : i >= 2 /\ Vector(p, i - 1) # Vector(p, i)}
    IN  IF Len(p) < 2 THEN 0
        ELSE Cardinality(pairs) + 30 * Cardinality(up) + 20 * Cardinality(down)
             + 10 * Cardinality(level) + 5 * Cardinality(turns)

\* C3: the value _calculate_energy_cost returns is the stated sum, and 0 below two positions
C3_CostFormula ==
    pc # "call" =>
        /\ ret_cost = CostAsStated(arg_path)
        /\ Len(arg_path) < 2 => ret_cost = 0

\* a path that goes up, then down by another vector, has been costed
C3_Witness ==
    /\ pc = "cost_returned"
    /\ Len(arg_path) = 3
    /\ arg_path[2][1] > arg_path[1][1]
    /\ arg_path[3][1] < arg_path[2][1]
    /\ ret_cost = 1 + 30 + 1 + 20 + 5

(***************************************************************************)
(* C4: optimize_energy_usage never increases cost: the path of each result *)
(* it returns costs no more than the path bfs_pathfinding returned for the *)
(* same target.                                                            *)
(***************************************************************************)
C4_OptimizeNeverIncreases ==
    \A k \in 1 .. Len(optimized_paths) :
        CalculateEnergyCost(dicts[optimized_paths[k]]["path"])
            <= CalculateEnergyCost(bfs_snapshot[k]["path"])

\* optimize_energy_usage has returned one path it shortened and one it kept
C4_Witness ==
    /\ pc = "visual"
    /\ \E k \in 1 .. Len(optimized_paths) :
           CalculateEnergyCost(dicts[optimized_paths[k]]["path"])
               < CalculateEnergyCost(bfs_snapshot[k]["path"])
    /\ \E k \in 1 .. Len(optimized_paths) :
           dicts[optimized_paths[k]]["path"] = bfs_snapshot[k]["path"]

(***************************************************************************)
(* C5: for a non-empty path whose same-floor consecutive waypoints share a *)
(* row or a column, _expand_path keeps the first and the last position,    *)
(* and expanding the expanded path changes nothing.                        *)
(***************************************************************************)
Aligned(p) ==
    \A i \in 1 .. Len(p) - 1 :
        p[i][1] = p[i + 1][1] => (p[i][2] = p[i + 1][2] \/ p[i][3] = p[i + 1][3])

\* C5: on a non-empty aligned path expand keeps both ends and expand(expand(p)) = expand(p)
C5_ExpandEndpointsIdempotent ==
    (pc = "expand2_returned" /\ Len(arg_path) >= 1 /\ Aligned(arg_path)) =>
        /\ Len(ret_path) >= 1
        /\ ret_path[1] = arg_path[1]
        /\ Last(ret_path) = Last(arg_path)
        /\ ret_path2 = ret_path

\* an aligned path with a gap along a row, a gap along a column and a floor
\* change in between has been expanded twice
C5_Witness ==
    /\ pc = "expand2_returned"
    /\ Len(arg_path) = 3
    /\ Aligned(arg_path)
    /\ arg_path[1][1] = arg_path[2][1]
    /\ Abs(arg_path[1][2] - arg_path[2][2]) + Abs(arg_path[1][3] - arg_path[2][3]) >= 2
    /\ arg_path[2][1] # arg_path[3][1]
    /\ Len(ret_path) > Len(arg_path)

(***************************************************************************)
(* C6: an unreachable Room is a per-target soft failure: bfs_pathfinding   *)
(* returns one result for each Room reachable from the source by valid     *)
(* moves and none for the others, in the floor-ascending row-major order   *)
(* of the Rooms, each with the Room's index in the full enumeration.       *)
(***************************************************************************)
RECURSIVE ReachFrom(_)
\* the cells connected to the set S by valid moves
ReachFrom(S) ==
    LET N == S \cup {q \in AllCells : \E p \in S : ValidMove(p, q)}
    IN  IF N = S THEN S ELSE ReachFrom(N)

ScanBefore(a, b) ==
    \/ a[1] < b[1]
    \/ a[1] = b[1] /\ a[2] < b[2]
    \/ a[1] = b[1] /\ a[2] = b[2] /\ a[3] < b[3]

\* C6: the results are exactly the reachable Rooms, in enumeration order, with their indices
C6_OneResultPerReachableRoom ==
    (pc = "returned" /\ source # None /\ targets # <<>>) =>
        LET reach == ReachFrom({source})
            Reached(i) == At(targets, i) \in reach
            idxs == SelectSeq([i \in 1 .. Len(targets) |-> i - 1], Reached)
        IN  /\ {targets[i] : i \in 1 .. Len(targets)} = {p \in AllCells : KindAt(p) = "R"}
            /\ \A i, j \in 1 .. Len(targets) : i < j => ScanBefore(targets[i], targets[j])
            /\ Len(bfs_paths) = Len(idxs)
            /\ \A k \in 1 .. Len(idxs) :
                   /\ Emitted[k]["target_index"] = idxs[k]
                   /\ Emitted[k]["target_position"] = At(targets, idxs[k])

\* the first Room cannot be reached, the second can, and one result came back
C6_Witness ==
    /\ pc = "returned"
    /\ source # None
    /\ Len(targets) = 2
    /\ targets[1] \notin ReachFrom({source})
    /\ targets[2] \in ReachFrom({source})
    /\ Len(bfs_paths) = 1
    /\ Emitted[1]["target_index"] = 1

(***************************************************************************)
(* C7: with no Source cell or no Room cell bfs_pathfinding returns the     *)
(* empty list without searching; a Source that is present, (0,0,0)         *)
(* included, is never taken for a missing one: with a Room present the     *)
(* searches are entered.                                                   *)
(***************************************************************************)
HasCell(symbol) == \E p \in AllCells : KindAt(p) = symbol

\* C7: no Source or no Room gives the empty result with no search; otherwise the searches run
C7_EmptyWithoutSourceOrRoom ==
    pc # "bfs_pathfinding" =>
        /\ (~HasCell("S") \/ ~HasCell("R")) =>
               /\ pc \in {"returned", "done"}
               /\ bfs_paths = <<>>
               /\ dicts = <<>>
               /\ enqueued = <<>>
        /\ (HasCell("S") /\ HasCell("R")) =>
               \/ pc = "for_target" /\ target_idx = 0
               \/ enqueued # <<>> /\ enqueued[1] = source

\* bfs_pathfinding has returned on a building with Rooms and no Source
C7_Witness ==
    /\ pc = "returned"
    /\ ~HasCell("S")
    /\ HasCell("R")
    /\ bfs_paths = <<>>

(***************************************************************************)
(* C8: every PathResult, at every stage, has energy_cost equal to the cost *)
(* of its path and steps equal to the length of its path; attaching        *)
(* visual_path = expand(path) changes none of path, steps, energy_cost.    *)
(***************************************************************************)
Consistent(d) ==
    /\ d["energy_cost"] = CalculateEnergyCost(d["path"])
    /\ d["steps"] = Len(d["path"])

\* C8: every dict has energy_cost = cost(path) and steps = len(path), and visual_path leaves them alone
C8_CostAndStepsFollowPath ==
    /\ [](\A i \in 1 .. Len(dicts) : Consistent(dicts[i]))
    /\ [][\A i \in 1 .. Len(dicts) :
              ("visual_path" \in DOMAIN dicts'[i] /\ "visual_path" \notin DOMAIN dicts[i]) =>
                  /\ dicts'[i]["path"] = dicts[i]["path"]
                  /\ dicts'[i]["steps"] = dicts[i]["steps"]
                  /\ dicts'[i]["energy_cost"] = dicts[i]["energy_cost"]
                  /\ dicts'[i]["visual_path"] = ExpandPath(dicts[i]["path"])]_vars

\* the main block is through, with a result whose path was replaced and whose
\* dense visual path is longer than the path
C8_Witness ==
    /\ pc = "done"
    /\ \E k \in 1 .. Len(optimized_paths) :
           LET d == dicts[optimized_paths[k]]
           IN  /\ d["energy_saved"] > 0
               /\ Len(d["visual_path"]) > Len(d["path"])

(***************************************************************************)
(* C9: the returned path is shortest by edge count: no sequence of valid   *)
(* moves from the source to the target has fewer positions.                *)
(***************************************************************************)
RECURSIVE Layers(_, _, _, _)
\* the number of moves of a shortest sequence of valid moves from the
\* frontier (n moves away from the start) to goal, -1 when there is none
Layers(frontier, seen, goal, n) ==
    IF goal \in frontier THEN n
    ELSE LET next == {q \in AllCells \ seen : \E p \in frontier : ValidMove(p, q)}
         IN  IF next = {} THEN -1
             ELSE Layers(next, seen \cup next, goal, n + 1)

Distance(a, b) == Layers({a}, {a}, b, 0)

\* C9: each returned path has exactly as many moves as the distance from the source to its target
C9_ShortestByEdgeCount ==
    pc = "returned" =>
        \A k \in 1 .. Len(bfs_paths) :
            Len(Emitted[k]["path"]) = Distance(source, Emitted[k]["target_position"]) + 1

\* a returned path makes a detour: it has more moves than the distance in
\* rows, columns and floors between its ends
C9_Witness ==
    /\ pc = "returned"
    /\ \E k \in 1 .. Len(bfs_paths) :
           LET path == Emitted[k]["path"]
               a == path[1]
               b == Last(path)
           IN  Len(path) - 1 >
                   Abs(a[2] - b[2]) + Abs(a[3] - b[3])
                   + (IF a[1] = b[1] THEN 0 ELSE 1)

(***************************************************************************)
(* C10: within one search no position is enqueued twice, so no returned    *)
(* path repeats a position; each search starts from a visited set and a    *)
(* queue holding just the source, so the path found for a target is the    *)
(* one a search for that target alone finds.                               *)
(***************************************************************************)
RECURSIVE SearchAlone(_, _, _)
\* the while loop of one search run on its own from the queue q and the
\* visited set vis: the path it emits, or <<>>
SearchAlone(q, vis, target) ==
    IF q = <<>> THEN <<>>
    ELSE IF Head(q)[1] = target THEN Head(q)[2]
    ELSE LET out == EnqueueLoop(Neighbours(Head(q)[1]), 1, Head(q)[2], vis, Tail(q))
         IN  SearchAlone(out[2], out[1], target)

\* C10: no position is enqueued twice in a search, visited is exactly what this search enqueued,
\* and each returned path is the one a search for that target alone returns
C10_EnqueuedOncePerSearch ==
    /\ NoRepeat(enqueued)
    /\ pc \in {"while", "after_while"} =>
           /\ enqueued[1] = source
           /\ visited = {enqueued[i] : i \in 1 .. Len(enqueued)}
           /\ \A i \in 1 .. Len(queue) :
                  \E j \in 1 .. Len(enqueued) : queue[i][1] = enqueued[j]
    /\ pc = "returned" =>
           \A k \in 1 .. Len(bfs_paths) :
               /\ NoRepeat(Emitted[k]["path"])
               /\ Emitted[k]["path"] =
                      SearchAlone(<< <<source, <<source>> >> >>, {source},
                                  Emitted[k]["target_position"])

\* two searches were run and both found a path of several moves
C10_Witness ==
    /\ pc = "returned"
    /\ Len(bfs_paths) = 2
    /\ Len(Emitted[1]["path"]) >= 3
    /\ Len(Emitted[2]["path"]) >= 3

(***************************************************************************)
(* C11: every per-target search starts in Exploring and ends in exactly    *)
(* one terminal state: Found (one PathResult emitted, the search stopped   *)
(* at the first dequeue of the target) or Exhausted (queue empty, nothing  *)
(* emitted).  One search enqueues at most floors x rows x cols positions,  *)
(* and no search leaves a terminal state.                                  *)
(***************************************************************************)
\* the state of the search for the target at target_idx
SearchState ==
    IF pc = "while" THEN "Exploring"
    ELSE IF pc = "after_while" THEN (IF path_found THEN "Found" ELSE "Exhausted")
    ELSE "NotSearching"

\* the number of PathResults emitted for the target of index i
ResultsFor(i) ==
    Cardinality({k \in 1 .. Len(bfs_paths) : Emitted[k]["target_index"] = i})

\* the search for the target of index i has reached a terminal state
Terminated(i) ==
    \/ i < target_idx
    \/ i = target_idx /\ pc = "after_while"

\* the queue holds exactly the positions enqueued after p, in that order
QueueIsWhatFollows(p) ==
    \E j \in 1 .. Len(enqueued) :
        /\ enqueued[j] = p
        /\ [i \in 1 .. Len(queue) |-> queue[i][1]] = SubSeq(enqueued, j + 1, Len(enqueued))

\* C11: each search starts Exploring, ends Found or Exhausted as described, stays ended,
\* and enqueues at most floors * rows * cols positions
C11_SearchTerminates ==
    /\ [](/\ Len(enqueued) <= floors * rows * cols
          /\ SearchState = "Exploring" =>
                 ~path_found /\ ResultsFor(target_idx) = 0
          /\ SearchState = "Found" =>
                 /\ ResultsFor(target_idx) = 1
                 /\ Last(Emitted)["target_index"] = target_idx
                 /\ Last(Last(Emitted)["path"]) = At(targets, target_idx)
                 /\ QueueIsWhatFollows(At(targets, target_idx))
          /\ SearchState = "Exhausted" =>
                 queue = <<>> /\ ResultsFor(target_idx) = 0)
    /\ [][/\ (pc = "for_target" /\ target_idx < Len(targets)) =>
                 SearchState' = "Exploring"
          /\ SearchState \in {"Found", "Exhausted"} =>
                 SearchState' \in {SearchState, "NotSearching"}
          /\ \A i \in Range0(Len(targets)) :
                 Terminated(i) => Terminated(i)' /\ ResultsFor(i)' = ResultsFor(i)]_vars
    /\ (SearchState = "Exploring") ~> (SearchState \in {"Found", "Exhausted"})

\* one search ended Found with positions still queued, and a later search of
\* the same run ended Exhausted after enqueuing several positions
C11_Witness ==
    /\ SearchState = "Exhausted"
    /\ Len(enqueued) >= 3
    /\ ResultsFor(target_idx - 1) = 1
    /\ target_idx = 1
    /\ Len(Emitted[1]["path"]) >= 2

(***************************************************************************)
(* C12: for every path p of bfs_pathfinding, _optimize_path_turns(p) is a  *)
(* subsequence of p that keeps its first and last positions; each          *)
(* consecutive pair (a, b) of it either was consecutive in p, or lies on   *)
(* one floor, shares a row or a column and has only in-bounds non-Wall     *)
(* cells strictly between.  No floor-change hop of p is removed and no     *)
(* diagonal pair is introduced.                                            *)
(***************************************************************************)
RECURSIVE IsSubsequence(_, _)
\* q can be obtained from p by deleting elements
IsSubsequence(q, p) ==
    IF q = <<>> THEN TRUE
    ELSE IF p = <<>> THEN FALSE
    ELSE IF Head(q) = Head(p) THEN IsSubsequence(Tail(q), Tail(p))
    ELSE IsSubsequence(q, Tail(p))

\* a is directly followed by b somewhere in p
ConsecutiveIn(p, a, b) == \E i \in 1 .. Len(p) - 1 : p[i] = a /\ p[i + 1] = b

\* the positions strictly between a and b, which are on one floor and share a
\* row or a column
StrictlyBetween(a, b) ==
    LET Lo(x, y) == IF x < y THEN x ELSE y
        Hi(x, y) == IF x > y THEN x ELSE y
    IN  {<<a[1], r, c>> : r \in Lo(a[2], b[2]) .. Hi(a[2], b[2]),
                          c \in Lo(a[3], b[3]) .. Hi(a[3], b[3])} \ {a, b}

\* a straight segment on one floor with no Wall and nothing out of bounds inside
ClearSegment(a, b) ==
    /\ a[1] = b[1]
    /\ a[2] = b[2] \/ a[3] = b[3]
    /\ \A x \in StrictlyBetween(a, b) : InBounds(x) /\ KindAt(x) # "W"

\* the paths bfs_pathfinding returned that optimize_energy_usage has been through
Simplified == {k \in 1 .. Len(optimized_paths) : k <= Len(bfs_snapshot)}

\* C12: the simplified path is a subsequence of the BFS path with the same ends, made of
\* pairs of the BFS path and clear straight segments, with every floor change kept
C12_SimplifiedIsSafe ==
    \A k \in Simplified :
        LET p == bfs_snapshot[k]["path"]
            q == OptimizePathTurns(p)
        IN  /\ IsSubsequence(q, p)
            /\ q[1] = p[1]
            /\ Last(q) = Last(p)
            /\ \A j \in 1 .. Len(q) - 1 :
                   /\ ConsecutiveIn(p, q[j], q[j + 1]) \/ ClearSegment(q[j], q[j + 1])
                   /\ q[j][1] = q[j + 1][1] =>
                          q[j][2] = q[j + 1][2] \/ q[j][3] = q[j + 1][3]
            /\ \A i \in 1 .. Len(p) - 1 :
                   p[i][1] # p[i + 1][1] => ConsecutiveIn(q, p[i], p[i + 1])

\* a path with a floor change was simplified: a waypoint was dropped next to
\* the stair, the hop itself was kept, and the building has a Wall
C12_Witness ==
    \E k \in Simplified :
        LET p == bfs_snapshot[k]["path"]
            q == dicts[optimized_paths[k]]["path"]
        IN  /\ q = OptimizePathTurns(p)
            /\ Len(q) < Len(p)
            /\ \E i \in 1 .. Len(p) - 1 : p[i][1] # p[i + 1][1]
            /\ \E j \in 1 .. Len(q) - 1 :
                   ~ConsecutiveIn(p, q[j], q[j + 1]) /\ KindAt(q[j + 1]) = "T"
            /\ \E w \in AllCells : KindAt(w) = "W"

(***************************************************************************)
(* C13: optimize_energy_usage replaces path, energy_cost and steps with    *)
(* those of the simplified path, and sets energy_saved to original minus   *)
(* simplified cost, exactly when the simplified cost is strictly lower;    *)
(* otherwise it returns the original unchanged with energy_saved = 0.      *)
(* Hence energy_saved >= 0, and energy_saved > 0 iff the path was          *)
(* replaced.                                                               *)
(***************************************************************************)
\* the k-th result of optimize_energy_usage is a dict of its own, not the k-th input
Replaced(k) == optimized_paths[k] # bfs_paths[k]

\* C13: a result is a replacement iff the simplified path costs strictly less, and then it holds
\* the simplified path, its cost, its length and the saving; otherwise it is the input with saving 0
C13_ReplacedIffCheaper ==
    \A k \in Simplified :
        LET original == bfs_snapshot[k]
            result == dicts[optimized_paths[k]]
            simplified == OptimizePathTurns(original["path"])
            cost == CalculateEnergyCost(simplified)
        IN  /\ Replaced(k) <=> cost < original["energy_cost"]
            /\ Replaced(k) =>
                   /\ result["path"] = simplified
                   /\ result["energy_cost"] = cost
                   /\ result["steps"] = Len(simplified)
                   /\ result["energy_saved"] = original["energy_cost"] - cost
            /\ ~Replaced(k) =>
                   /\ result["path"] = original["path"]
                   /\ result["energy_cost"] = original["energy_cost"]
                   /\ result["steps"] = original["steps"]
                   /\ result["energy_saved"] = 0
            /\ result["energy_saved"] >= 0
            /\ result["energy_saved"] > 0 <=> Replaced(k)

\* optimize_energy_usage has returned two results, one replaced and one not
C13_Witness ==
    /\ pc = "visual"
    /\ \E k \in Simplified : Replaced(k) /\ dicts[optimized_paths[k]]["energy_saved"] > 0
    /\ \E k \in Simplified : ~Replaced(k) /\ dicts[optimized_paths[k]]["energy_saved"] = 0

(***************************************************************************)
(* C14: bfs_pathfinding expands the neighbours of each dequeued position   *)
(* in the order row-1, row+1, col-1, col+1, and then, only on a Stair      *)
(* cell, the other floors in ascending order that hold a Stair at the same *)
(* (row, col).  The returned path is the one a FIFO search with that order *)
(* discovers: on the one-floor 2 x 2 grid of Empty cells with the Source   *)
(* at (0,0,0) and a Room at (0,1,1) the path goes through (0,1,0), not     *)
(* through (0,0,1).                                                        *)
(***************************************************************************)
\* the neighbours of p in the order of the claim
ClaimedOrder(p) ==
    LET f == p[1]
        r == p[2]
        c == p[3]
        Enterable(x) == InBounds(x) /\ KindAt(x) # "W"
        OtherStair(x) == x[1] # f /\ KindAt(x) = "T"
        shaft == [k \in 1 .. floors |-> <<k - 1, r, c>>]
    IN  SelectSeq(<< <<f, r - 1, c>>, <<f, r + 1, c>>, <<f, r, c - 1>>, <<f, r, c + 1>> >>,
                  Enterable)
        \o (IF KindAt(p) = "T" THEN SelectSeq(shaft, OtherStair) ELSE <<>>)

RECURSIVE FifoSearch(_, _, _)
\* the path a first-in first-out search with the order of the claim finds to
\* target from the queue q of <<position, path>> and the set seen, or <<>>
FifoSearch(q, seen, target) ==
    IF q = <<>> THEN <<>>
    ELSE IF Head(q)[1] = target THEN Head(q)[2]
    ELSE LET Fresh(x) == x \notin seen
             fresh == SelectSeq(ClaimedOrder(Head(q)[1]), Fresh)
         IN  FifoSearch(Tail(q) \o [k \in 1 .. Len(fresh) |->
                                       <<fresh[k], Append(Head(q)[2], fresh[k])>>],
                        seen \cup {fresh[k] : k \in 1 .. Len(fresh)},
                        target)

\* The one-floor 2 x 2 layout   S . / . R
TwoByTwoScenario ==
    MkBuilding(<<1, 2, 2>>, <<0, 0, 0>>, {<<0, 1, 1>>}, {}, {})

\* C14: each expansion enqueues the unvisited neighbours in the claimed order, every returned
\* path is the one the FIFO search with that order finds, and the 2 x 2 example goes by (0,1,0)
C14_NeighbourOrder ==
    /\ [][(pc = "while" /\ queue # <<>> /\ Head(queue)[1] # At(targets, target_idx)) =>
              LET Fresh(x) == x \notin visited
                  fresh == SelectSeq(ClaimedOrder(Head(queue)[1]), Fresh)
              IN  /\ enqueued' = enqueued \o fresh
                  /\ queue' = Tail(queue) \o [k \in 1 .. Len(fresh) |->
                                 <<fresh[k], Append(Head(queue)[2], fresh[k])>>]]_vars
    /\ [](pc = "returned" =>
              \A k \in 1 .. Len(bfs_paths) :
                  Emitted[k]["path"] =
                      FifoSearch(<< <<source, <<source>> >> >>, {source},
                                 Emitted[k]["target_position"]))
    /\ []((pc = "returned" /\ building = TwoByTwoScenario) =>
              /\ Len(bfs_paths) = 1
              /\ Emitted[1]["path"] = << <<0, 0, 0>>, <<0, 1, 0>>, <<0, 1, 1>> >>)

\* the search has expanded a Stair cell and enqueued a neighbour on its floor
\* and then the Stair of another floor
C14_Witness ==
    /\ pc = "while"
    /\ \E i, j \in 1 .. Len(enqueued) - 1 :
           /\ i < j
           /\ KindAt(enqueued[i]) = "T"
           /\ UnitStep(enqueued[i], enqueued[j])
           /\ StairHop(enqueued[i], enqueued[j + 1])

(***************************************************************************)
(* C15: _expand_path never loses or reorders points.  For every path p, p  *)
(* is a subsequence of expand(p) in the same order; nothing is inserted    *)
(* for a floor-changing pair; for a pair on one floor that shares a row or *)
(* a column exactly the cells strictly between the two are inserted, in    *)
(* travel order, so that consecutive cells between such waypoints differ   *)
(* by exactly 1 in exactly one of row and column.                          *)
(***************************************************************************)
Sign(x) == IF x > 0 THEN 1 ELSE IF x < 0 THEN -1 ELSE 0

\* a and b are on one floor and share a row or a column
Straight(a, b) == a[1] = b[1] /\ (a[2] = b[2] \/ a[3] = b[3])

\* the number of cells strictly between a and b on a straight pair, 0 otherwise
Gap(a, b) ==
    IF Straight(a, b) /\ a # b
    THEN Abs(a[2] - b[2]) + Abs(a[3] - b[3]) - 1
    ELSE 0

RECURSIVE PlaceOf(_, _)
\* the index in expand(p) at which the claim puts p[i]
PlaceOf(p, i) ==
    IF i = 1 THEN 1 ELSE PlaceOf(p, i - 1) + Gap(p[i - 1], p[i]) + 1

\* the cell n steps from a towards b
Towards(a, b, n) ==
    <<a[1], a[2] + n * Sign(b[2] - a[2]), a[3] + n * Sign(b[3] - a[3])>>

\* C15: expand(p) is p with exactly the cells strictly between each straight same-floor pair
\* inserted in travel order, and nothing inserted elsewhere
C15_ExpandInsertsBetween ==
    pc \in {"expand_returned", "expand2_returned"} =>
        LET p == arg_path
            out == ret_path
        IN  /\ IsSubsequence(p, out)
            /\ Len(p) < 2 => out = p
            /\ Len(p) >= 2 =>
                   /\ Len(out) = PlaceOf(p, Len(p))
                   /\ \A i \in 1 .. Len(p) : out[PlaceOf(p, i)] = p[i]
                   /\ \A i \in 1 .. Len(p) - 1 :
                          /\ p[i][1] # p[i + 1][1] => PlaceOf(p, i + 1) = PlaceOf(p, i) + 1
                          /\ \A n \in 1 .. Gap(p[i], p[i + 1]) :
                                 out[PlaceOf(p, i) + n] = Towards(p[i], p[i + 1], n)
                          /\ (Straight(p[i], p[i + 1]) /\ p[i] # p[i + 1]) =>
                                 \A n \in PlaceOf(p, i) .. PlaceOf(p, i + 1) - 1 :
                                     UnitStep(out[n], out[n + 1])

\* _expand_path has returned for a path with a floor change and a straight
\* pair walked towards lower indices with two cells between
C15_Witness ==
    /\ pc = "expand_returned"
    /\ Len(arg_path) = 3
    /\ arg_path[1][1] # arg_path[2][1]
    /\ Straight(arg_path[2], arg_path[3])
    /\ arg_path[3][3] = arg_path[2][3] - 3
    /\ Len(ret_path) = 5

(***************************************************************************)
(* C16: optimize_energy_usage returns exactly one result per input         *)
(* PathResult, in the same order, with target_index and target_position    *)
(* unchanged; a replacement is made on a copy, so the path, steps and      *)
(* energy_cost of the input PathResult are never modified in place.        *)
(***************************************************************************)
\* C16: one result per input in order with the same target, and the inputs keep their path,
\* steps and energy_cost; a replaced result is a dict of its own
C16_InputsUntouched ==
    pc \in {"optimize", "visual", "done"} =>
        /\ Len(bfs_paths) = Len(bfs_snapshot)
        /\ pc = "optimize" => Len(optimized_paths) = opt_i
        /\ pc \in {"visual", "done"} => Len(optimized_paths) = Len(bfs_paths)
        /\ \A k \in 1 .. Len(optimized_paths) :
               LET result == dicts[optimized_paths[k]]
               IN  /\ result["target_index"] = bfs_snapshot[k]["target_index"]
                   /\ result["target_position"] = bfs_snapshot[k]["target_position"]
                   /\ Replaced(k) =>
                          \A j \in 1 .. Len(bfs_paths) : optimized_paths[k] # bfs_paths[j]
        /\ \A k \in 1 .. Len(bfs_paths) :
               LET input == dicts[bfs_paths[k]]
               IN  /\ input["path"] = bfs_snapshot[k]["path"]
                   /\ input["steps"] = bfs_snapshot[k]["steps"]
                   /\ input["energy_cost"] = bfs_snapshot[k]["energy_cost"]

\* the main block is through with two results, the first a replacement that is
\* shorter than its input, which still holds the path bfs_pathfinding found
C16_Witness ==
    /\ pc = "done"
    /\ Len(optimized_paths) = 2
    /\ Replaced(1)
    /\ Len(dicts[optimized_paths[1]]["path"]) < Len(dicts[bfs_paths[1]]["path"])
    /\ dicts[bfs_paths[1]]["path"] = bfs_snapshot[1]["path"]

(***************************************************************************)
(* C17: densifying a simplified BFS path recovers the BFS path: for every  *)
(* path p of bfs_pathfinding, _expand_path(_optimize_path_turns(p)) = p,   *)
(* so the visual_path of an optimized result is exactly the cell sequence  *)
(* the search found.                                                       *)
(***************************************************************************)
\* C17: expanding the simplified path gives back the BFS path, and so does every visual_path
C17_ExpandRecoversBfsPath ==
    \A k \in Simplified :
        LET p == bfs_snapshot[k]["path"]
            result == dicts[optimized_paths[k]]
        IN  /\ ExpandPath(OptimizePathTurns(p)) = p
            /\ ExpandPath(result["path"]) = p
            /\ "visual_path" \in DOMAIN result => result["visual_path"] = p

\* the main block is through with a replaced result whose visual_path changes
\* floor and has more cells than the path
C17_Witness ==
    /\ pc = "done"
    /\ \E k \in Simplified :
           LET result == dicts[optimized_paths[k]]
               dense == result["visual_path"]
           IN  /\ Replaced(k)
               /\ Len(dense) > Len(result["path"])
               /\ \E i \in 1 .. Len(dense) - 1 : dense[i][1] # dense[i + 1][1]

(***************************************************************************)
(* C18: on a BFS path the simplification leaves the number of turn         *)
(* penalties unchanged and removes exactly one step charge per dropped     *)
(* waypoint, so energy_saved = 1.1 x (len(p) - len(simplified)), that is   *)
(* 11 tenths per dropped waypoint.  The path is replaced iff at least one  *)
(* waypoint is dropped, iff p holds three consecutive collinear positions  *)
(* on one floor.                                                           *)
(***************************************************************************)
\* the number of turn penalties _calculate_energy_cost charges on p
TurnPenalties(p) ==
    Cardinality({i \in 2 .. Len(p) - 1 : IsTurn(At(p, i - 2), At(p, i - 1), At(p, i))})

\* p holds three consecutive positions on one floor and one line
CollinearTriple(p) ==
    \E i \in 1 .. Len(p) - 2 :
        /\ p[i][1] = p[i + 1][1]
        /\ p[i + 1][1] = p[i + 2][1]
        /\ p[i + 1][2] - p[i][2] = p[i + 2][2] - p[i + 1][2]
        /\ p[i + 1][3] - p[i][3] = p[i + 2][3] - p[i + 1][3]

====
